---- MODULE Spec2Model ----
(***************************************************************************)
(* Driver-location relay (src/server.ts).  An HTTP producer posts events   *)
(* to POST /event; socket.io connections subscribe to one driver's room,   *)
(* get a replay of the stored events of that driver and then live updates. *)
(*                                                                         *)
(* Node runs every handler to completion on one thread, so each handler is *)
(* one atomic action.  The only deferred work is the setImmediate callback *)
(* of POST /event; setImmediate callbacks run in FIFO order, and any       *)
(* number of other handlers may run between the request and its callback.  *)
(*                                                                         *)
(* JavaScript values that are not strings are written as sentinels:        *)
(* UNDEF is undefined (an absent field), NUM is a non-string value.        *)
(***************************************************************************)
EXTENDS Naturals, Sequences, FiniteSets, TLC

----------------------------------------------------------------------------
(* Bounds of the model *)

MaxSockets == 2

MaxPosts == 2

MaxSubscribes == 2

MaxResets == 1

\* handler runs in one behaviour
MaxSteps == 7

\* longest log a GET /event is asked about
MaxLog == 11

----------------------------------------------------------------------------
(* Values *)

UNDEF == "<undefined>"

NUM == "<number>"

NaN == 99

Sockets == 1..MaxSockets

\* typeof v === "string"
IsString(v) == v \notin {UNDEF, NUM}

\* String.prototype.trim on the driver ids the model sends
Trim(v) ==
  CASE v = "  " -> ""
    [] v = " d2 " -> "d2"
    [] OTHER -> v

\* new Date(value).getTime(): milliseconds of the instant, NaN when the
\* string is no date.  Two spellings of one instant parse to one number.
DateGetTime(value) ==
  CASE value = "2024-01-01T00:00:01Z" -> 1
    [] value = "2024-01-01T00:00:02Z" -> 2
    [] value = "2024-01-01T00:00:02.000Z" -> 2
    [] value = "2024-01-01T00:00:03Z" -> 3
    [] OTHER -> NaN

\* a >= b on two Dates, as numbers: false when either is NaN
DateGE(a, b) == a # NaN /\ b # NaN /\ a >= b

\* parsedatetime: null (written NaN) when absent, empty or unparseable
parsedatetime(value) ==
  IF value = UNDEF \/ value = "" THEN NaN
  ELSE DateGetTime(value)

\* a faulty getDriverRoom: one room for all drivers
getDriverRoomShared(driverId) == "driver:"

\* getDriverRoom: a template literal, so undefined becomes "undefined"
getDriverRoom(driverId) ==
  "driver:" \o (IF driverId = UNDEF THEN "undefined" ELSE driverId)

\* Request bodies of POST /event.  event stands for the EventInfo object
\* (passed through untouched); the model gives every request its own.
\* hasData = FALSE is a body with no data object.
Data(driver, timestamp) == [driver |-> driver, timestamp |-> timestamp]

DataInputs ==
  { Data("d1", "2024-01-01T00:00:01Z"),
    Data("d1", "2024-01-01T00:00:02.000Z"),
    Data("d1", "garbage"),
    Data("d2", "2024-01-01T00:00:03Z"),
    Data(UNDEF, "2024-01-01T00:00:01Z"),
    Data("", "2024-01-01T00:00:01Z") }

Body(event, hasData, data) == [event |-> event, hasData |-> hasData, data |-> data]

NoData == Data(UNDEF, UNDEF)

\* data.data?.driver
OptDriver(body) == IF body.hasData THEN body.data.driver ELSE UNDEF

\* Payloads of the "subscribe" socket event
Payload(driver_id, since) == [driver_id |-> driver_id, since |-> since]

SubscribePayloads ==
  { Payload(UNDEF, UNDEF),
    Payload(NUM, UNDEF),
    Payload("  ", UNDEF),
    Payload("d1", UNDEF),
    Payload("d1", ""),
    Payload("d1", "2024-01-01T00:00:02Z"),
    Payload(" d2 ", "garbage"),
    Payload("undefined", UNDEF) }

----------------------------------------------------------------------------
(* State *)

VARIABLES
  receivedData,               \* the event log
  requestCount,
  connectedClients,
  socketDriverSubscriptions,  \* Map socket id -> driver id
  rooms,                      \* socket.io adapter: pairs <<socket id, room>>
  conn,                       \* transport state of each socket id
  immediateQueue,             \* pending setImmediate callbacks, FIFO
  inbox,                      \* what each connection was sent, in order
  responses,                  \* POST /event: each request body and its response
  fanouts,                    \* the deferred steps that ran, in order, each
                              \* with the number of ingests acknowledged by then
  crashed,                    \* an uncaught exception ended the process
  nSubscribes,
  nResets,
  steps,                      \* handler runs so far
  lastReset,                  \* what the most recent reset saw
  lastSubscribe,              \* the most recent subscribe request served
  lastQuery                   \* the most recent GET request and its response

vars == << receivedData, requestCount, connectedClients,
           socketDriverSubscriptions, rooms, conn, immediateQueue, inbox,
           responses, fanouts, crashed, nSubscribes, nResets, steps,
           lastReset, lastSubscribe, lastQuery >>

Open == {s \in Sockets : conn[s] = "open"}

Members(room) == {s \in Sockets : <<s, room>> \in rooms}

RoomsOf(s) == {p[2] : p \in {q \in rooms : q[1] = s}}

\* Map.get
MapGet(m, k) == IF k \in DOMAIN m THEN m[k] ELSE UNDEF

\* a faulty Map.set: nothing is recorded
MapSetNothing(m, k, v) == m

\* Map.set
MapSet(m, k, v) == [x \in DOMAIN m \cup {k} |-> IF x = k THEN v ELSE m[x]]

\* emit msg to every socket of targets
Deliver(box, targets, msgs) ==
  [s \in Sockets |-> IF s \in targets THEN box[s] \o msgs ELSE box[s]]

Init ==
  /\ receivedData = << >>
  /\ requestCount = 0
  /\ connectedClients = {}
  /\ socketDriverSubscriptions = [x \in {} |-> UNDEF]
  /\ rooms = {}
  /\ conn = [s \in Sockets |-> "new"]
  /\ immediateQueue = << >>
  /\ inbox = [s \in Sockets |-> << >>]
  /\ responses = << >>
  /\ fanouts = << >>
  /\ crashed = FALSE
  /\ nSubscribes = 0
  /\ nResets = 0
  /\ steps = 0
  /\ lastReset = [posts |-> 0, resets |-> [s \in Sockets |-> 0]]
  /\ lastSubscribe = [socket |-> 0]
  /\ lastQuery = [path |-> ""]

----------------------------------------------------------------------------
(* Connection lifecycle *)

\* a faulty connection handler: io.emit, so the new connection is told too
ConnectTellsAll(s) ==
  /\ ~crashed
  /\ steps < MaxSteps
  /\ steps' = steps + 1
  /\ conn[s] = "new"
  /\ \A t \in Sockets : t < s => conn[t] # "new"
  /\ conn' = [conn EXCEPT ![s] = "open"]
  /\ connectedClients' = connectedClients \cup {s}
  /\ inbox' =
       [t \in Sockets |->
          IF t = s
            THEN inbox[t] \o << [name |-> "connected", clientId |-> s],
                                [name |-> "subscriber_joined",
                                 subscriberCount |-> Cardinality(connectedClients')] >>
          ELSE IF t \in Open
            THEN inbox[t] \o << [name |-> "subscriber_joined",
                                 subscriberCount |-> Cardinality(connectedClients')] >>
          ELSE inbox[t]]
  /\ UNCHANGED << receivedData, requestCount, socketDriverSubscriptions, rooms,
                  immediateQueue, responses, fanouts, crashed, nSubscribes,
                  nResets, lastReset, lastSubscribe, lastQuery >>

\* io.on("connection")
Connect(s) ==
  /\ ~crashed
  /\ steps < MaxSteps
  /\ steps' = steps + 1
  /\ conn[s] = "new"
  /\ \A t \in Sockets : t < s => conn[t] # "new"
  /\ conn' = [conn EXCEPT ![s] = "open"]
  /\ connectedClients' = connectedClients \cup {s}
  /\ inbox' =
       [t \in Sockets |->
          IF t = s
            THEN inbox[t] \o << [name |-> "connected", clientId |-> s] >>
          ELSE IF t \in Open
            THEN inbox[t] \o << [name |-> "subscriber_joined",
                                 subscriberCount |-> Cardinality(connectedClients')] >>
          ELSE inbox[t]]
  /\ UNCHANGED << receivedData, requestCount, socketDriverSubscriptions, rooms,
                  immediateQueue, responses, fanouts, crashed, nSubscribes,
                  nResets, lastReset, lastSubscribe, lastQuery >>

\* a faulty leave: the closed socket stays in its rooms
RoomsAfterLeaveAllKept(rs, s) == rs

\* socket.io takes a closing socket out of all its rooms
RoomsAfterLeaveAll(rs, s) == {p \in rs : p[1] # s}

\* socket.on("disconnect"); socket.io has taken the socket out of all its
\* rooms before it calls the handler
Disconnect(s) ==
  /\ ~crashed
  /\ steps < MaxSteps
  /\ steps' = steps + 1
  /\ conn[s] = "open"
  /\ conn' = [conn EXCEPT ![s] = "closed"]
  /\ rooms' = RoomsAfterLeaveAll(rooms, s)
  /\ connectedClients' = connectedClients \ {s}
  /\ inbox' = Deliver(inbox, Open \ {s},
                 << [name |-> "subscriber_left",
                     subscriberCount |-> Cardinality(connectedClients')] >>)
  /\ UNCHANGED << receivedData, requestCount, socketDriverSubscriptions,
                  immediateQueue, responses, fanouts, crashed, nSubscribes,
                  nResets, lastReset, lastSubscribe, lastQuery >>

----------------------------------------------------------------------------
(* socket.on("subscribe") *)

\* a faulty resolution: the driver id is not trimmed
ResolveDriverIdNoTrim(payload) ==
  IF IsString(payload.driver_id) THEN payload.driver_id ELSE ""

\* the driver id the handler resolves from the payload
ResolveDriverId(payload) ==
  IF IsString(payload.driver_id) THEN Trim(payload.driver_id) ELSE ""

\* the predicate of receivedData.filter
HistoryKeeps(entry, driverId, datetimeDate) ==
  /\ entry.data.driver = driverId
  /\ \/ datetimeDate = NaN
     \/ /\ DateGetTime(entry.data.timestamp) # NaN
        /\ DateGE(DateGetTime(entry.data.timestamp), datetimeDate)

History(log, driverId, datetimeDate) ==
  SelectSeq(log, LAMBDA entry : HistoryKeeps(entry, driverId, datetimeDate))

\* entry.data.driver throws a TypeError on an entry with no data object
HistoryThrows(log) == \E i \in 1..Len(log) : ~log[i].hasData

ReplayMessage(entry) ==
  [name |-> "driver_location_update", from |-> "subscribe",
   driverId |-> entry.data.driver, event |-> entry.event, data |-> entry.data,
   replay |-> FALSE]

ReplayMessages(history) == [i \in 1..Len(history) |-> ReplayMessage(history[i])]

\* a faulty switch: the earlier room is kept
LeaveNothing(rs, s, currentDriverId, driverId) == rs

\* leave the room of the current driver when it is another one
LeaveCurrent(rs, s, currentDriverId, driverId) ==
  IF currentDriverId # UNDEF /\ currentDriverId # "" /\ currentDriverId # driverId
    THEN rs \ {<<s, getDriverRoom(currentDriverId)>>}
    ELSE rs

SubscribeRejected(s, payload) ==
  /\ inbox' = Deliver(inbox, {s}, << [name |-> "driver_subscription_error"] >>)
  /\ lastSubscribe' = [socket |-> s, payload |-> payload, outcome |-> "error",
                       driverId |-> "", log |-> receivedData,
                       emitted |-> << [name |-> "driver_subscription_error"] >>]
  /\ UNCHANGED << socketDriverSubscriptions, rooms, crashed >>

SubscribeAccepted(s, payload, driverId) ==
  LET since == payload.since
      datetimeDate == parsedatetime(since)
      currentDriverId == MapGet(socketDriverSubscriptions, s)
      history == History(receivedData, driverId, datetimeDate)
  IN /\ socketDriverSubscriptions' = MapSet(socketDriverSubscriptions, s, driverId)
     /\ rooms' = LeaveCurrent(rooms, s, currentDriverId, driverId)
                   \cup {<<s, getDriverRoom(driverId)>>}
     /\ IF HistoryThrows(receivedData)
          THEN /\ crashed' = TRUE
               /\ inbox' = inbox
               /\ lastSubscribe' =
                    [socket |-> s, payload |-> payload, outcome |-> "fault",
                     driverId |-> driverId, log |-> receivedData,
                     emitted |-> << >>]
          ELSE LET emitted == ReplayMessages(history)
                              \o << [name |-> "driver_subscription_success",
                                     driverId |-> driverId, since |-> since,
                                     subscriptionId |-> s] >>
               IN /\ crashed' = crashed
                  /\ inbox' = Deliver(inbox, {s}, emitted)
                  /\ lastSubscribe' =
                       [socket |-> s, payload |-> payload, outcome |-> "success",
                        driverId |-> driverId, log |-> receivedData,
                        emitted |-> emitted]

Subscribe(s, payload) ==
  /\ ~crashed
  /\ steps < MaxSteps
  /\ steps' = steps + 1
  /\ conn[s] = "open"
  /\ nSubscribes < MaxSubscribes
  /\ nSubscribes' = nSubscribes + 1
  /\ LET driverId == ResolveDriverId(payload)
     IN IF driverId = ""
          THEN SubscribeRejected(s, payload)
          ELSE SubscribeAccepted(s, payload, driverId)
  /\ UNCHANGED << receivedData, requestCount, connectedClients, conn,
                  immediateQueue, responses, fanouts, nResets, lastReset,
                  lastQuery >>

----------------------------------------------------------------------------
(* HTTP endpoints *)

\* the response of POST /event
PostResponse == [status |-> 200, keys |-> {"success"}, success |-> TRUE]

\* a faulty defer: the callback is put ahead of the pending ones
PostJumpsQueue(hasData, data) ==
  /\ ~crashed
  /\ steps < MaxSteps
  /\ steps' = steps + 1
  /\ Len(responses) < MaxPosts
  /\ LET body == Body(Len(responses) + 1, hasData, data)
     IN /\ responses' = Append(responses, [body |-> body, res |-> PostResponse])
        /\ immediateQueue' =
             << [data |-> body, driverId |-> OptDriver(body)] >> \o immediateQueue
  /\ UNCHANGED << receivedData, requestCount, connectedClients,
                  socketDriverSubscriptions, rooms, conn, inbox, fanouts,
                  crashed, nSubscribes, nResets, lastReset, lastSubscribe,
                  lastQuery >>

\* app.post("/event"): respond, then defer the append and the fan-out
Post(hasData, data) ==
  /\ ~crashed
  /\ steps < MaxSteps
  /\ steps' = steps + 1
  /\ Len(responses) < MaxPosts
  /\ LET body == Body(Len(responses) + 1, hasData, data)
     IN /\ responses' = Append(responses, [body |-> body, res |-> PostResponse])
        /\ immediateQueue' =
             Append(immediateQueue, [data |-> body, driverId |-> OptDriver(body)])
  /\ UNCHANGED << receivedData, requestCount, connectedClients,
                  socketDriverSubscriptions, rooms, conn, inbox, fanouts,
                  crashed, nSubscribes, nResets, lastReset, lastSubscribe,
                  lastQuery >>

LiveMessage(cb) ==
  [name |-> "driver_location_update", from |-> "ingest",
   driverId |-> cb.driverId, event |-> cb.data.event, data |-> cb.data.data,
   replay |-> FALSE]

\* a faulty fan-out: io.emit, to every open connection
FanoutTargetsAll(driverRoom) == Open

\* the sockets io.to(driverRoom).emit reaches
FanoutTargets(driverRoom) == Members(driverRoom)

\* the setImmediate callback of POST /event
RunImmediate ==
  /\ ~crashed
  /\ steps < MaxSteps
  /\ steps' = steps + 1
  /\ immediateQueue # << >>
  /\ LET cb == Head(immediateQueue)
         driverRoom == getDriverRoom(cb.driverId)
     IN /\ receivedData' = Append(receivedData, cb.data)
        /\ requestCount' = requestCount + 1
        /\ inbox' = Deliver(inbox, FanoutTargets(driverRoom), << LiveMessage(cb) >>)
        /\ fanouts' = Append(fanouts, [event |-> cb.data.event, room |-> driverRoom,
                                       to |-> FanoutTargets(driverRoom),
                                       acked |-> Len(responses)])
  /\ immediateQueue' = Tail(immediateQueue)
  /\ UNCHANGED << connectedClients, socketDriverSubscriptions, rooms, conn,
                  responses, crashed, nSubscribes, nResets, lastReset, lastSubscribe,
                  lastQuery >>

\* the sockets io.emit reaches
ResetTargets == Open

\* a faulty reset: it also drops every subscription and empties the rooms
ResetDropsSubscriptions ==
  /\ ~crashed
  /\ steps < MaxSteps
  /\ steps' = steps + 1
  /\ nResets < MaxResets
  /\ nResets' = nResets + 1
  /\ receivedData' = << >>
  /\ requestCount' = 0
  /\ socketDriverSubscriptions' = [x \in {} |-> UNDEF]
  /\ rooms' = {}
  /\ inbox' = Deliver(inbox, ResetTargets, << [name |-> "reset"] >>)
  /\ lastReset' = [posts |-> Len(responses),
                    resets |-> [s \in Sockets |->
                      lastReset.resets[s] + (IF conn[s] = "open" THEN 1 ELSE 0)]]
  /\ UNCHANGED << connectedClients, conn, immediateQueue, responses, fanouts,
                  crashed, nSubscribes, lastSubscribe, lastQuery >>

\* app.delete("/event")
Reset ==
  /\ ~crashed
  /\ steps < MaxSteps
  /\ steps' = steps + 1
  /\ nResets < MaxResets
  /\ nResets' = nResets + 1
  /\ receivedData' = << >>
  /\ requestCount' = 0
  /\ inbox' = Deliver(inbox, ResetTargets, << [name |-> "reset"] >>)
  /\ lastReset' = [posts |-> Len(responses),
                    resets |-> [s \in Sockets |->
                      lastReset.resets[s] + (IF conn[s] = "open" THEN 1 ELSE 0)]]
  /\ UNCHANGED << connectedClients, socketDriverSubscriptions, rooms, conn,
                  immediateQueue, responses, fanouts, crashed, nSubscribes,
                  lastSubscribe, lastQuery >>

\* the limit the handler uses when the query has none
DefaultLimit == 10

\* the limit query parameters the model sends; UNDEF is no parameter
LimitInputs == {UNDEF, "", "0", "1", "2", "10", "12"}

\* parseInt(str, 10) on those parameters
ParseInt(str) ==
  CASE str = "0" -> 0
    [] str = "1" -> 1
    [] str = "2" -> 2
    [] str = "10" -> 10
    [] str = "12" -> 12

\* req.query.limit ? parseInt(req.query.limit, 10) : 10
QueryLimit(param) ==
  IF param = UNDEF \/ param = "" THEN DefaultLimit ELSE ParseInt(param)

\* array.slice(-limit) for limit >= 0.  A negative start counts from the
\* end; -0 is 0, so slice(-0) starts at the first element.
SliceLast(array, limit) ==
  LET len == Len(array)
      k == IF limit = 0 THEN 0
           ELSE IF limit >= len THEN 0
           ELSE len - limit
  IN SubSeq(array, k + 1, len)

\* the response of GET /event
GetEventResponse(param) ==
  LET recentData == SliceLast(receivedData, QueryLimit(param))
  IN [success |-> TRUE, count |-> Len(recentData), total |-> Len(receivedData),
      subscribersConnected |-> Cardinality(connectedClients), data |-> recentData]

\* app.get("/event")
GetEvent(param) ==
  /\ ~crashed
  /\ steps < MaxSteps
  /\ steps' = steps + 1
  /\ lastQuery' = [path |-> "/event", limit |-> param, log |-> receivedData,
                    res |-> GetEventResponse(param)]
  /\ UNCHANGED << receivedData, requestCount, connectedClients,
                  socketDriverSubscriptions, rooms, conn, immediateQueue, inbox,
                  responses, fanouts, crashed, nSubscribes, nResets, lastReset,
                  lastSubscribe >>

\* app.get("/subscribers")
GetSubscribers ==
  /\ ~crashed
  /\ steps < MaxSteps
  /\ steps' = steps + 1
  /\ lastQuery' = [path |-> "/subscribers",
                    res |-> [success |-> TRUE,
                             count |-> Cardinality(connectedClients)]]
  /\ UNCHANGED << receivedData, requestCount, connectedClients,
                  socketDriverSubscriptions, rooms, conn, immediateQueue, inbox,
                  responses, fanouts, crashed, nSubscribes, nResets, lastReset,
                  lastSubscribe >>

----------------------------------------------------------------------------

Next ==
  \/ \E s \in Sockets : Connect(s)
  \/ \E s \in Sockets : Disconnect(s)
  \/ \E s \in Sockets, payload \in SubscribePayloads : Subscribe(s, payload)
  \/ \E data \in DataInputs : Post(TRUE, data)
  \/ Post(FALSE, NoData)
  \/ RunImmediate
  \/ Reset

Spec == Init /\ [][Next]_vars

\* The event loop runs a pending setImmediate callback in its next check
\* phase: a deferred step that can run does run.
FairSpec == Spec /\ WF_vars(RunImmediate)

\* The read endpoints.  The server has taken n ingests of driver d1 from a
\* producer, each acknowledged and appended, and no connection was made yet.
StoredBody(i) == Body(i, TRUE, Data("d1", "2024-01-01T00:00:01Z"))

InitQuery ==
  \E n \in 0..MaxLog :
    /\ receivedData = [i \in 1..n |-> StoredBody(i)]
    /\ requestCount = n
    /\ responses = [i \in 1..n |-> [body |-> StoredBody(i), res |-> PostResponse]]
    /\ fanouts = [i \in 1..n |-> [event |-> i, room |-> getDriverRoom("d1"),
                                     to |-> {}, acked |-> i]]
    /\ connectedClients = {}
    /\ socketDriverSubscriptions = [x \in {} |-> UNDEF]
    /\ rooms = {}
    /\ conn = [s \in Sockets |-> "new"]
    /\ immediateQueue = << >>
    /\ inbox = [s \in Sockets |-> << >>]
    /\ crashed = FALSE
    /\ nSubscribes = 0
    /\ nResets = 0
    /\ steps = 0
    /\ lastReset = [posts |-> 0, resets |-> [s \in Sockets |-> 0]]
    /\ lastSubscribe = [socket |-> 0]
    /\ lastQuery = [path |-> ""]

NextQuery ==
  \/ \E param \in LimitInputs : GetEvent(param)
  \/ GetSubscribers
  \/ \E s \in Sockets : Connect(s)
  \/ \E s \in Sockets : Disconnect(s)
  \/ \E data \in DataInputs : Post(TRUE, data)
  \/ RunImmediate
  \/ Reset

SpecQuery == InitQuery /\ [][NextQuery]_vars

----------------------------------------------------------------------------
(* The second server variant of src/server.ts (from line 256): one room,   *)
(* "subscribers", and an ingest that appends and broadcasts before it       *)
(* responds.  Its connection, disconnect and reset handlers are the same.   *)

\* socket.on("subscribe"): any payload joins the one room
V2Subscribe(s) ==
  /\ ~crashed
  /\ steps < MaxSteps
  /\ steps' = steps + 1
  /\ conn[s] = "open"
  /\ nSubscribes < MaxSubscribes
  /\ nSubscribes' = nSubscribes + 1
  /\ rooms' = rooms \cup {<<s, "subscribers">>}
  /\ UNCHANGED << receivedData, requestCount, connectedClients,
                  socketDriverSubscriptions, conn, immediateQueue, inbox,
                  responses, fanouts, crashed, nResets, lastReset, lastSubscribe,
                  lastQuery >>

V2PostResponse ==
  [status |-> 201, keys |-> {"success", "message", "payload", "subscribersNotified"},
   success |-> TRUE, subscribersNotified |-> Cardinality(connectedClients)]

V2Message(name, body) ==
  [name |-> name, type |-> "data_update", event |-> body.event, data |-> body.data]

\* app.post("/event") of the second variant
V2Post(hasData, data) ==
  /\ ~crashed
  /\ steps < MaxSteps
  /\ steps' = steps + 1
  /\ Len(responses) < MaxPosts
  /\ LET body == Body(Len(responses) + 1, hasData, data)
     IN /\ receivedData' = Append(receivedData, body)
        /\ inbox' = Deliver(Deliver(inbox, Open, << V2Message("data_received", body) >>),
                            Members("subscribers"), << V2Message("data_update", body) >>)
        /\ fanouts' = Append(fanouts, [event |-> body.event, room |-> "subscribers",
                                       to |-> Members("subscribers"),
                                       acked |-> Len(responses)])
        /\ responses' = Append(responses, [body |-> body, res |-> V2PostResponse])
  /\ UNCHANGED << requestCount, connectedClients, socketDriverSubscriptions, rooms,
                  conn, immediateQueue, crashed, nSubscribes, nResets, lastReset,
                  lastSubscribe, lastQuery >>

NextV2 ==
  \/ \E s \in Sockets : Connect(s)
  \/ \E s \in Sockets : Disconnect(s)
  \/ \E s \in Sockets : V2Subscribe(s)
  \/ \E data \in DataInputs : V2Post(TRUE, data)
  \/ V2Post(FALSE, NoData)
  \/ Reset

SpecV2 == Init /\ [][NextV2]_vars

----------------------------------------------------------------------------
(* Reading the histories *)

IsUpdate(m) == m.name = "driver_location_update"

Updates(box) == SelectSeq(box, IsUpdate)

EventsOf(seq) == [i \in 1..Len(seq) |-> seq[i].event]

Successes(box) == SelectSeq(box, LAMBDA m : m.name = "driver_subscription_success")

Errors(box) == SelectSeq(box, LAMBDA m : m.name = "driver_subscription_error")

ValidBody(body) == body.hasData /\ body.data.driver \notin {UNDEF, ""}

LogOf(log, driverId) ==
  SelectSeq(log, LAMBDA entry : entry.hasData /\ entry.data.driver = driverId)

\* positions of box holding an update sent by the subscribe handler / by fan-out
ReplayAt(box) == {i \in 1..Len(box) : IsUpdate(box[i]) /\ box[i].from = "subscribe"}

LiveAt(box) == {i \in 1..Len(box) : IsUpdate(box[i]) /\ box[i].from = "ingest"}

SuccessAt(box) == {i \in 1..Len(box) : box[i].name = "driver_subscription_success"}

\* s is open and was served exactly one subscribe request, an accepted one
\* without a cursor
SubscribedOnceNoCursor(s) ==
  /\ conn[s] = "open"
  /\ Len(Successes(inbox[s])) = 1
  /\ Len(Errors(inbox[s])) = 0
  /\ Successes(inbox[s])[1].since = UNDEF

----------------------------------------------------------------------------
(* Claims *)

\* C1: when every ingest so far was valid and no reset ran, a connection that
\* stays connected and subscribed once, without a cursor, to driver d has
\* received exactly the events of d in the log, in log order and each once:
\* the replayed ones before its acknowledgement, the live ones after it.
C1_ReplayThenLive ==
  \A s \in Sockets :
    ( /\ SubscribedOnceNoCursor(s)
      /\ nResets = 0
      /\ \A i \in 1..Len(responses) : ValidBody(responses[i].body) )
    => LET d == Successes(inbox[s])[1].driverId
           k == CHOOSE i \in SuccessAt(inbox[s]) : TRUE
       IN /\ EventsOf(Updates(inbox[s])) = EventsOf(LogOf(receivedData, d))
          /\ \A i \in ReplayAt(inbox[s]) : i < k
          /\ \A i \in LiveAt(inbox[s]) : i > k
          /\ \A i \in 1..Len(Updates(inbox[s])) : Updates(inbox[s])[i].driverId = d

\* C1 witness: such a connection holds a replayed event and, after it, a live one
C1_Witness ==
  \E s \in Sockets :
    /\ SubscribedOnceNoCursor(s)
    /\ nResets = 0
    /\ \A i \in 1..Len(responses) : ValidBody(responses[i].body)
    /\ ReplayAt(inbox[s]) # {}
    /\ LiveAt(inbox[s]) # {}
    /\ immediateQueue = << >>

\* the subscribe request served last was one for s that passed validation
LastSubscribeAccepted == lastSubscribe.socket # 0 /\ lastSubscribe.outcome # "error"

\* the replay that request emitted: the stored entries, in the order sent
LastReplay ==
  LET ups == Updates(lastSubscribe.emitted)
  IN [i \in 1..Len(ups) |-> [event |-> ups[i].event, data |-> ups[i].data]]

\* C2: the replay of a subscribe to d with a parseable since = t holds only
\* stored events of d with timestamp >= t, and holds every stored event of d
\* whose timestamp is exactly t.
C2_InclusiveCursor ==
  (LastSubscribeAccepted /\ parsedatetime(lastSubscribe.payload.since) # NaN)
  => LET t == parsedatetime(lastSubscribe.payload.since)
         d == lastSubscribe.driverId
         log == lastSubscribe.log
     IN /\ \A i \in 1..Len(LastReplay) :
             /\ LastReplay[i].data.driver = d
             /\ DateGE(DateGetTime(LastReplay[i].data.timestamp), t)
             /\ \E j \in 1..Len(log) :
                  log[j].hasData /\ log[j].event = LastReplay[i].event
        /\ \A j \in 1..Len(log) :
             ( /\ log[j].hasData
               /\ log[j].data.driver = d
               /\ DateGetTime(log[j].data.timestamp) = t )
             => \E i \in 1..Len(LastReplay) : LastReplay[i].event = log[j].event

\* C2 on a log whose entries all carry a data object: the cursor is inclusive
C2_OnWellFormedLog ==
  (LastSubscribeAccepted /\ \A j \in 1..Len(lastSubscribe.log) : lastSubscribe.log[j].hasData)
  => C2_InclusiveCursor

\* the driver of the subscription s holds: its last acknowledged subscribe
HasSubscription(s) == Successes(inbox[s]) # << >>

LastSubscribed(s) == Successes(inbox[s])[Len(Successes(inbox[s]))].driverId

FanoutStep == Len(fanouts') = Len(fanouts) + 1

\* C3: a subscribe for driver B by a connection subscribed to A takes it out
\* of A's room and into B's; from then on a fan-out of an event of driver x
\* reaches the connection exactly when x is the driver it subscribed to last.
C3_SwitchMovesRoom ==
  [][ \A s \in Sockets :
        /\ ( /\ nSubscribes' = nSubscribes + 1
             /\ lastSubscribe'.socket = s
             /\ lastSubscribe'.outcome # "error"
             /\ HasSubscription(s)
             /\ LastSubscribed(s) # lastSubscribe'.driverId )
           => /\ <<s, getDriverRoom(LastSubscribed(s))>> \notin rooms'
              /\ <<s, getDriverRoom(lastSubscribe'.driverId)>> \in rooms'
        /\ ( FanoutStep /\ ValidBody(Head(immediateQueue).data) )
           => LET body == Head(immediateQueue).data
              IN IF conn[s] = "open" /\ HasSubscription(s)
                      /\ LastSubscribed(s) = body.data.driver
                   THEN /\ Len(inbox'[s]) = Len(inbox[s]) + 1
                        /\ inbox'[s][Len(inbox'[s])].event = body.event
                        /\ inbox'[s][Len(inbox'[s])].name = "driver_location_update"
                   ELSE inbox'[s] = inbox[s]
    ]_vars

\* C3 witness: a connection switched drivers, then got the live event of the
\* new driver and not the later one of the old driver
C3_Witness ==
  \E s \in Sockets :
    /\ conn[s] = "open"
    /\ Len(Successes(inbox[s])) = 2
    /\ Successes(inbox[s])[1].driverId # Successes(inbox[s])[2].driverId
    /\ \E k \in LiveAt(inbox[s]) :
         /\ \A i \in SuccessAt(inbox[s]) : i < k
         /\ inbox[s][k].driverId = Successes(inbox[s])[2].driverId
         /\ \E f \in 1..Len(fanouts) :
              /\ fanouts[f].room = getDriverRoom(Successes(inbox[s])[1].driverId)
              /\ fanouts[f].event > inbox[s][k].event
              /\ s \notin fanouts[f].to

AllRooms == {p[2] : p \in rooms}

\* C4: a disconnect takes the connection out of every room, shrinking each
\* room it was in by exactly that one member; a closed connection is in no
\* room and is sent nothing, and a fan-out reaches exactly the members its
\* room has when it runs.
C4_DisconnectLeavesRooms ==
  [][ /\ \A s \in Sockets :
           /\ (conn[s] = "open" /\ conn'[s] = "closed")
              => /\ \A r \in AllRooms : Members(r)' = Members(r) \ {s}
                 /\ AllRooms' \subseteq AllRooms
           /\ conn[s] = "closed"
              => /\ inbox'[s] = inbox[s]
                 /\ RoomsOf(s)' = {}
      /\ FanoutStep
         => LET f == fanouts'[Len(fanouts')]
            IN /\ f.to = Members(f.room)
               /\ f.to \subseteq Open
               /\ \A s \in Sockets :
                    Len(inbox'[s]) = Len(inbox[s]) + (IF s \in f.to THEN 1 ELSE 0)
    ]_vars

\* C4 witness: a connection subscribed to d has closed, and an event of d was
\* then fanned out to the remaining member of d's room only
C4_Witness ==
  \E s \in Sockets :
    /\ conn[s] = "closed"
    /\ HasSubscription(s)
    /\ \E f \in 1..Len(fanouts) :
         /\ fanouts[f].room = getDriverRoom(LastSubscribed(s))
         /\ fanouts[f].to # {}
         /\ s \notin fanouts[f].to
         /\ \A i \in 1..Len(inbox[s]) : inbox[s][i].name # "driver_location_update"

ResetAt(box) == {i \in 1..Len(box) : box[i].name = "reset"}

\* C5: after a reset the log stays empty until a new ingest is accepted, and
\* every connection has one reset notification for each reset that ran while
\* it was open.
C5_ResetEmptiesLog ==
  /\ (nResets > 0 /\ Len(responses) = lastReset.posts) => receivedData = << >>
  /\ \A s \in Sockets : Cardinality(ResetAt(inbox[s])) = lastReset.resets[s]

\* C6: an ingest whose data.driver is missing or empty is answered with a
\* validation failure, is never in the log and is fanned out to nobody.
C6_InvalidIngestRejected ==
  /\ \A i \in 1..Len(responses) :
       ~ValidBody(responses[i].body) => responses[i].res.status >= 400
  /\ \A i \in 1..Len(receivedData) : ValidBody(receivedData[i])
  /\ \A f \in 1..Len(fanouts) :
       ~ValidBody(responses[fanouts[f].event].body) => fanouts[f].to = {}

\* C7: the acknowledgement of an ingest carries the number of connections
\* the event was fanned out to.
C7_AckCountsNotified ==
  \A f \in 1..Len(fanouts) :
    LET res == responses[fanouts[f].event].res
    IN /\ "subscribersNotified" \in res.keys
       /\ res.subscribersNotified = Cardinality(fanouts[f].to)

\* the driver_id values that are absent, not a string, or blank
InvalidDriverIds == {UNDEF, NUM, "  "}

\* C8: a subscribe with an absent, non-string or blank driver_id sends one
\* driver_subscription_error to the requester and nothing to anyone else, and
\* changes neither the subscriptions, the rooms nor the log.
C8_InvalidSubscribe ==
  [][ \A s \in Sockets :
        ( /\ nSubscribes' = nSubscribes + 1
          /\ lastSubscribe'.socket = s
          /\ lastSubscribe'.payload.driver_id \in InvalidDriverIds )
        => /\ inbox' = [inbox EXCEPT
                          ![s] = Append(@, [name |-> "driver_subscription_error"])]
           /\ UNCHANGED << socketDriverSubscriptions, rooms, receivedData >>
    ]_vars

\* C8 witness: a subscribed connection was refused a later, invalid subscribe
\* while another connection was open
C8_Witness ==
  \E s \in Sockets :
    /\ lastSubscribe.socket = s
    /\ lastSubscribe.payload.driver_id \in InvalidDriverIds
    /\ HasSubscription(s)
    /\ RoomsOf(s) = {getDriverRoom(LastSubscribed(s))}
    /\ inbox[s][Len(inbox[s])].name = "driver_subscription_error"
    /\ Open \ {s} # {}

\* C9: a connection is a member of at most one driver room.
C9_AtMostOneRoom == \A s \in Sockets : Cardinality(RoomsOf(s)) <= 1

\* C9 witness: a connection that subscribed to two drivers in turn is in the
\* room of the second only
C9_Witness ==
  \E s \in Sockets :
    /\ Len(Successes(inbox[s])) = 2
    /\ Successes(inbox[s])[1].driverId # Successes(inbox[s])[2].driverId
    /\ RoomsOf(s) = {getDriverRoom(Successes(inbox[s])[2].driverId)}

\* C10: a driver_location_update carries the replay tag exactly when the
\* subscribe handler sent it as part of a replay.
C10_ReplayTagged ==
  \A s \in Sockets : \A i \in 1..Len(inbox[s]) :
    IsUpdate(inbox[s][i]) => (inbox[s][i].replay <=> inbox[s][i].from = "subscribe")

\* C11: a reset empties the log and zeroes the request counter and changes
\* nothing else of the server: the open connections, connectedClients, the
\* recorded subscriptions, every room's membership and the pending deferred
\* steps stay as they were; and a fan-out that runs after a reset still
\* reaches every open connection whose last subscription is the event's driver.
C11_ResetKeepsSubscriptions ==
  [][ /\ nResets' = nResets + 1
         => /\ receivedData' = << >>
            /\ requestCount' = 0
            /\ UNCHANGED << conn, connectedClients, socketDriverSubscriptions,
                            rooms, immediateQueue >>
      /\ (nResets > 0 /\ FanoutStep /\ ValidBody(Head(immediateQueue).data))
         => \A s \in Sockets :
              ( /\ conn[s] = "open"
                /\ HasSubscription(s)
                /\ LastSubscribed(s) = Head(immediateQueue).data.data.driver )
              => /\ Len(inbox'[s]) = Len(inbox[s]) + 1
                 /\ inbox'[s][Len(inbox'[s])].event = Head(immediateQueue).data.event
                 /\ IsUpdate(inbox'[s][Len(inbox'[s])])
    ]_vars

\* C11 witness: a connection subscribed, then a reset ran, then the
\* connection got a live update of an ingest made after the reset
C11_Witness ==
  \E s \in Sockets :
    \E a \in SuccessAt(inbox[s]), r \in ResetAt(inbox[s]), k \in LiveAt(inbox[s]) :
      /\ a < r
      /\ r < k
      /\ inbox[s][k].event > lastReset.posts

Min(a, b) == IF a <= b THEN a ELSE b

\* the limit query parameters that are non-negative integers
IntegerLimits == LimitInputs \ {UNDEF, ""}

\* C12: GET /event?limit=N answers, for every non-negative integer N and
\* every log of length L, with the last min(N, L) events of the log in
\* insertion order, count = min(N, L) and total = L; without a limit N is 10.
C12_LastNEvents ==
  lastQuery.path = "/event"
  => LET N == IF lastQuery.limit \in IntegerLimits
                THEN ParseInt(lastQuery.limit) ELSE 10
         L == Len(lastQuery.log)
         k == Min(N, L)
     IN /\ lastQuery.res.count = k
        /\ lastQuery.res.total = L
        /\ lastQuery.res.data = SubSeq(lastQuery.log, L - k + 1, L)

\* C12 for every limit but 0: the answer is the last min(N, L) events
C12_PositiveLimit ==
  (lastQuery.path = "/event" /\ lastQuery.limit # "0") => C12_LastNEvents

\* C12, the frame: a GET request changes nothing of the server
C12_QueryChangesNothing ==
  [][ lastQuery' # lastQuery
      => UNCHANGED << receivedData, requestCount, connectedClients,
                      socketDriverSubscriptions, rooms, conn, immediateQueue,
                      inbox >>
    ]_vars

\* the events of the live updates a connection was sent, in the order sent
LiveEvents(box) == EventsOf(SelectSeq(box, LAMBDA m : IsUpdate(m) /\ m.from = "ingest"))

Increasing(seq) == \A i, j \in 1..Len(seq) : i < j => seq[i] < seq[j]

\* C13, as stated: when an ingest of a driver is acknowledged, the deferred
\* step of every earlier ingest of that driver has run, that is, no two
\* pending deferred steps are of one driver.
C13_DeferredBeforeNextIngest ==
  \A i, j \in 1..Len(immediateQueue) :
    (i < j /\ ValidBody(immediateQueue[i].data))
    => immediateQueue[i].driverId # immediateQueue[j].driverId

\* C13, amended: the deferred steps run in the order the ingests were
\* acknowledged, whatever was acknowledged in between; so the log and the
\* live updates of every connection are in acceptance order, per driver too.
C13_AcceptanceOrder ==
  /\ \A f \in 1..Len(fanouts) : fanouts[f].event = f
  /\ Increasing(EventsOf(receivedData))
  /\ \A s \in Sockets : Increasing(LiveEvents(inbox[s]))

\* C13 witness: a connection got the live updates of two ingests of its
\* driver in acceptance order, the second ingest having been acknowledged
\* before the deferred step of the first ran
C13_Witness ==
  \E s \in Sockets :
    /\ Len(LiveEvents(inbox[s])) = 2
    /\ EventsOf(LogOf(receivedData, LastSubscribed(s))) = LiveEvents(inbox[s])
    /\ fanouts[LiveEvents(inbox[s])[1]].acked >= LiveEvents(inbox[s])[2]

\* C14: the recorded subscriptions hold no connection that is not open: once
\* the disconnect handler ran for a connection, socketDriverSubscriptions has
\* no entry for it.
C14_NoStaleSubscription == DOMAIN socketDriverSubscriptions \subseteq Open

\* C15: every member of the room of a driver d has d recorded as its current
\* driver in socketDriverSubscriptions.
C15_MembersAreRecorded ==
  \A p \in rooms :
    /\ p[1] \in DOMAIN socketDriverSubscriptions
    /\ p[2] = getDriverRoom(socketDriverSubscriptions[p[1]])

\* C15 witness: a connection that switched from one driver to another is a
\* member of the second driver's room and recorded with the second driver
C15_Witness ==
  \E s \in Sockets :
    /\ Len(Successes(inbox[s])) = 2
    /\ Successes(inbox[s])[1].driverId # Successes(inbox[s])[2].driverId
    /\ <<s, getDriverRoom(Successes(inbox[s])[2].driverId)>> \in rooms
    /\ MapGet(socketDriverSubscriptions, s) = Successes(inbox[s])[2].driverId
    /\ MapGet(socketDriverSubscriptions, s) # Successes(inbox[s])[1].driverId

\* C16: no handler ends in an unhandled fault, whatever fields the ingest
\* and subscribe requests so far lacked; and a subscribe that passed the
\* driver_id validation ended with its success acknowledgement.
C16_NoUnhandledFault ==
  /\ ~crashed
  /\ LastSubscribeAccepted
     => /\ lastSubscribe.outcome = "success"
        /\ lastSubscribe.emitted # << >>
        /\ lastSubscribe.emitted[Len(lastSubscribe.emitted)].name
             = "driver_subscription_success"

Joined(n) == [name |-> "subscriber_joined", subscriberCount |-> n]

Left(n) == [name |-> "subscriber_left", subscriberCount |-> n]

NamesOf(box) == {box[i].name : i \in 1..Len(box)}

\* C17: connectedClients is exactly the set of open connections, GET
\* /subscribers reports its size, and a join or leave notification goes to
\* every other open connection and not to the one that joined or left,
\* carrying the number of open connections after the change.
C17_ClientsAreOpenConnections ==
  [][ /\ connectedClients' = Open'
      /\ \A s \in Sockets :
           /\ (conn[s] = "new" /\ conn'[s] = "open")
              => /\ \A t \in Open :
                      inbox'[t] = Append(inbox[t], Joined(Cardinality(Open')))
                 /\ \A t \in Sockets \ (Open \cup {s}) : inbox'[t] = inbox[t]
                 /\ "subscriber_joined" \notin NamesOf(inbox'[s])
           /\ (conn[s] = "open" /\ conn'[s] = "closed")
              => /\ \A t \in Open \ {s} :
                      inbox'[t] = Append(inbox[t], Left(Cardinality(Open')))
                 /\ \A t \in Sockets \ (Open \ {s}) : inbox'[t] = inbox[t]
      /\ (lastQuery' # lastQuery /\ lastQuery'.path = "/subscribers")
         => lastQuery'.res.count = Cardinality(Open)
    ]_vars

\* C17 witness: of two connections one has closed; the other was told of the
\* join with count 2 and of the leave with count 1, the closed one of
\* neither, and GET /subscribers then reported 1
C17_Witness ==
  \E s, t \in Sockets :
    /\ conn[s] = "closed"
    /\ conn[t] = "open"
    /\ SelectSeq(inbox[t], LAMBDA m : m.name \in {"subscriber_joined", "subscriber_left"})
         = << Joined(2), Left(1) >>
    /\ NamesOf(inbox[s]) = {"connected"}
    /\ lastQuery.path = "/subscribers"
    /\ lastQuery.res.count = 1

\* the log of the last subscribe request has a data object in every entry
LastLogWellFormed ==
  \A j \in 1..Len(lastSubscribe.log) : lastSubscribe.log[j].hasData

\* C18: a subscribe that passed validation with an absent, empty or
\* unparseable since is not an error and replays every stored event of its
\* driver in insertion order, those with an unparseable timestamp included;
\* with a parseable since the replay holds no stored event whose timestamp
\* is unparseable.
C18_SinceFilter ==
  LastSubscribeAccepted
  => /\ parsedatetime(lastSubscribe.payload.since) = NaN
        => /\ lastSubscribe.outcome = "success"
           /\ EventsOf(LastReplay)
                = EventsOf(LogOf(lastSubscribe.log, lastSubscribe.driverId))
     /\ parsedatetime(lastSubscribe.payload.since) # NaN
        => \A i \in 1..Len(LastReplay) :
             DateGetTime(LastReplay[i].data.timestamp) # NaN

\* C18 on a log whose entries all carry a data object
C18_OnWellFormedLog ==
  (LastSubscribeAccepted /\ LastLogWellFormed) => C18_SinceFilter

\* a subscribe with an empty since replayed a
\* stored event whose timestamp is unparseable
C18_ReplaysUnparseable ==
  /\ LastSubscribeAccepted
  /\ lastSubscribe.payload.since = ""
  /\ \E i \in 1..Len(LastReplay) : DateGetTime(LastReplay[i].data.timestamp) = NaN

\* a subscribe with a parseable since left out a stored event of its driver
\* whose timestamp is unparseable
C18_DropsUnparseable ==
  /\ LastSubscribeAccepted
  /\ lastSubscribe.outcome = "success"
  /\ parsedatetime(lastSubscribe.payload.since) # NaN
  /\ \E j \in 1..Len(lastSubscribe.log) :
       /\ lastSubscribe.log[j].data.driver = lastSubscribe.driverId
       /\ DateGetTime(lastSubscribe.log[j].data.timestamp) = NaN

\* C19: every acknowledged ingest is appended and fanned out by its deferred
\* step exactly once, and not before its acknowledgement.  With a fairly
\* scheduled callback "eventually" fails exactly when a deferred step is
\* pending in a state from which it can never run, so that is what the first
\* conjunct excludes; the others say that every acknowledged ingest is pending or
\* has run once, and that each step ran after its request was acknowledged.
C19_AckedIsAppendedOnce ==
  /\ immediateQueue # << >> => ~crashed
  /\ Len(fanouts) + Len(immediateQueue) = Len(responses)
  /\ \A f \in 1..Len(fanouts) :
       /\ fanouts[f].event = f
       /\ fanouts[f].acked >= fanouts[f].event
  /\ \A q \in 1..Len(immediateQueue) :
       immediateQueue[q].data.event = Len(fanouts) + q

\* C19 without the first conjunct: exactly once, and after the acknowledgement
C19_OnceAfterAck == (immediateQueue # << >> => ~crashed) => C19_AckedIsAppendedOnce

\* C19, the liveness itself: the i-th acknowledged ingest is eventually
\* appended, unless the process ended or the behaviour used up its handler runs
C19_EventuallyAppended ==
  \A i \in 1..MaxPosts :
    (Len(responses) >= i) ~> (Len(fanouts) >= i \/ crashed \/ steps = MaxSteps)

\* this step served a subscribe of s, valid, for the driver s is recorded with
Resubscribes(s) ==
  /\ nSubscribes' = nSubscribes + 1
  /\ lastSubscribe'.socket = s
  /\ lastSubscribe'.outcome # "error"
  /\ MapGet(socketDriverSubscriptions, s) = lastSubscribe'.driverId

\* C20: a subscribe for the driver the connection is already subscribed to
\* leaves socketDriverSubscriptions and every room as they were, and the
\* connection is sent the replay and the success acknowledgement again.
C20_ResubscribeIdempotent ==
  [][ \A s \in Sockets :
        Resubscribes(s)
        => /\ UNCHANGED << socketDriverSubscriptions, rooms >>
           /\ <<s, getDriverRoom(lastSubscribe'.driverId)>> \in rooms
           /\ lastSubscribe'.outcome = "success"
           /\ inbox'[s] = inbox[s] \o lastSubscribe'.emitted
           /\ Len(Successes(lastSubscribe'.emitted)) = 1
           /\ EventsOf(Updates(lastSubscribe'.emitted))
                = EventsOf(History(receivedData, lastSubscribe'.driverId,
                                   parsedatetime(lastSubscribe'.payload.since)))
    ]_vars

\* C20 on a log whose entries all carry a data object
C20_OnWellFormedLog ==
  [][ (\A j \in 1..Len(receivedData) : receivedData[j].hasData)
      => \A s \in Sockets :
           Resubscribes(s)
           => /\ UNCHANGED << socketDriverSubscriptions, rooms >>
              /\ <<s, getDriverRoom(lastSubscribe'.driverId)>> \in rooms
              /\ lastSubscribe'.outcome = "success"
              /\ inbox'[s] = inbox[s] \o lastSubscribe'.emitted
              /\ Len(Successes(lastSubscribe'.emitted)) = 1
              /\ EventsOf(Updates(lastSubscribe'.emitted))
                   = EventsOf(History(receivedData, lastSubscribe'.driverId,
                                      parsedatetime(lastSubscribe'.payload.since)))
    ]_vars

\* C20, the registry alone: the map and the rooms are as they were, faulting
\* request or not
C20_RegistryUnchanged ==
  [][ \A s \in Sockets :
        Resubscribes(s) => UNCHANGED << socketDriverSubscriptions, rooms >>
    ]_vars

\* a connection subscribed twice to one driver and was sent a replayed event
\* and the acknowledgement the second time too
C20_Resubscribed ==
  \E s \in Sockets :
    /\ Len(Successes(inbox[s])) = 2
    /\ Successes(inbox[s])[1].driverId = Successes(inbox[s])[2].driverId
    /\ lastSubscribe.socket = s
    /\ Updates(lastSubscribe.emitted) # << >>

====
